---- MODULE Spec2Model ----
(***************************************************************************)
(* Credit ledger, usage metering and payment reconciliation of the         *)
(* ai-content-studio backend (backend/src/routes/credits.ts, images.ts and *)
(* the analytics recorder).                                                *)
(*                                                                         *)
(* The three JSON files (credits.json, payments.json, analytics.json) are  *)
(* the shared state.  Every request is an async handler: it runs on the    *)
(* single Node.js thread and yields at every await of a file or provider   *)
(* call.  One action of the model is one such call taking effect together  *)
(* with the synchronous code that follows it up to the next await; the     *)
(* steps of different requests interleave freely.                          *)
(***************************************************************************)
EXTENDS Integers, Sequences, FiniteSets, Bags, TLC

VARIABLES
    creditsFile,    \* credits.json : userId -> ledger record (a partial map)
    paymentsFile,   \* payments.json: the array of payment records
    analyticsFile,  \* analytics.json: events, daily stats, summary (or missing)
    sessions,       \* the payment processor's checkout sessions, by session id
    uploads,        \* the uploads directory: whether it exists, how many metadata files it holds
    now,            \* the wall clock read by new Date()
    req,            \* the bag of requests, each with its position in its handler and its locals
    admitted,       \* how many requests have been received
    run             \* the kind of run: how many requests it admits (limit), whether they
                    \* are handled one at a time (serial), and whether a request stays
                    \* on record once it has been answered (keep)

vars == <<creditsFile, paymentsFile, analyticsFile, sessions, uploads, now, req, admitted, run>>

-----------------------------------------------------------------------------
(* Bounds of the model *)

MaxLedgerOps == 3
MaxNow == 1

Users == {"u1", "u2"}

\* the amounts the ledger operations are exercised with
DebitAmounts == {2, 3}
CreditAmounts == {10}

-----------------------------------------------------------------------------
(* Pricing table *)

CREDIT_TIERS ==
    << [id |-> "starter",  credits |-> 10,  price |-> 500],
       [id |-> "pro",      credits |-> 50,  price |-> 2000],
       [id |-> "business", credits |-> 200, price |-> 6000] >>

KnownModels == {"dall-e-2", "dall-e-3", "gpt-image-1", "gpt-image-1-mini"}

MODEL_CREDIT_COSTS ==
    [m \in KnownModels |->
        CASE m = "dall-e-2" -> 1
          [] m = "dall-e-3" -> 2
          [] m = "gpt-image-1" -> 3
          [] m = "gpt-image-1-mini" -> 1]

\* every model at the price of the cheapest
CostOf_Flat(m) == 1

\* MODEL_CREDIT_COSTS[model] || 1
CostOf(m) == IF m \in KnownModels /\ MODEL_CREDIT_COSTS[m] # 0 THEN MODEL_CREDIT_COSTS[m] ELSE 1

-----------------------------------------------------------------------------
(* Ledger store: the bodies of getUserCredits, useCredits and addCredits    *)
(* between their read of credits.json and their write of it.               *)

EmptyFn == [x \in {} |-> 0]

StarterBalance == 5

\* the record getUserCredits creates for an unknown user
StarterRecord(t) ==
    [balance |-> StarterBalance, totalPurchased |-> 0, totalUsed |-> 0, updatedAt |-> t]

\* the record addCredits creates for an unknown user, before it adds the amount
BlankRecord(t) ==
    [balance |-> 0, totalPurchased |-> 0, totalUsed |-> 0, updatedAt |-> t]

HasRecord(data, u) == u \in DOMAIN data

Put(data, u, rec) == (u :> rec) @@ data

\* a new record that starts empty
GetUserCreditsApply_Blank(data, u, t) ==
    IF HasRecord(data, u) THEN data ELSE Put(data, u, BlankRecord(t))

\* getUserCredits, lines 110-116: data[userId] = {...} when absent
GetUserCreditsApply(data, u, t) ==
    IF HasRecord(data, u) THEN data ELSE Put(data, u, StarterRecord(t))

\* useCredits with the balance test left out
UseCreditsAllowed_Unchecked(data, u, amount) == HasRecord(data, u)

\* useCredits, line 125: the guard that lets the debit go ahead
UseCreditsAllowed(data, u, amount) ==
    HasRecord(data, u) /\ ~(data[u].balance < amount)

\* the debit that forgets to count what was used
UseCreditsApply_NoTotal(data, u, amount, t) ==
    Put(data, u, [data[u] EXCEPT !.balance = @ - amount, !.updatedAt = t])

\* useCredits, lines 128-130
UseCreditsApply(data, u, amount, t) ==
    Put(data, u, [data[u] EXCEPT !.balance = @ - amount,
                                 !.totalUsed = @ + amount,
                                 !.updatedAt = t])

\* the credit that forgets to count what was purchased
AddCreditsApply_BalanceOnly(data, u, amount, t) ==
    LET base == IF HasRecord(data, u) THEN data[u] ELSE BlankRecord(t)
    IN  Put(data, u, [base EXCEPT !.balance = @ + amount, !.updatedAt = t])

\* addCredits, lines 138-148
AddCreditsApply(data, u, amount, t) ==
    LET base == IF HasRecord(data, u) THEN data[u] ELSE BlankRecord(t)
    IN  Put(data, u, [base EXCEPT !.balance = @ + amount,
                                  !.totalPurchased = @ + amount,
                                  !.updatedAt = t])

-----------------------------------------------------------------------------
(* Usage event recorder: trackEvent between its read and its write of       *)
(* analytics.json.                                                         *)

RetentionCap == 10000
TopModelsKept == 5

\* one clock tick is half a day, so that stamps of the same and of the next day occur
TicksPerDay == 2
DateOf(t) == t \div TicksPerDay

RECURSIVE Gcd(_, _)
Gcd(a, b) == IF b = 0 THEN a ELSE Gcd(b, a % b)

\* a JavaScript quotient n / d kept exact, as a reduced fraction
Ratio(n, d) ==
    IF n = 0 THEN <<0, 1>> ELSE LET g == Gcd(n, d) IN <<n \div g, d \div g>>

InitialSummary(t) ==
    [totalImagesGenerated |-> 0, totalImagesFailed |-> 0, totalCreditsPurchased |-> 0,
     totalCreditsUsed |-> 0, totalRevenue |-> 0, uniqueUsers |-> 0, topModels |-> <<>>,
     conversionRate |-> <<0, 1>>, avgRevenuePerUser |-> <<0, 1>>, lastUpdated |-> t]

\* the value initAnalytics builds when the file cannot be read
InitialAnalytics(t) ==
    [present |-> TRUE, events |-> <<>>, daily |-> EmptyFn, summary |-> InitialSummary(t)]

MissingAnalytics ==
    [present |-> FALSE, events |-> <<>>, daily |-> EmptyFn, summary |-> InitialSummary(0)]

\* metadata of an event; a field the caller does not pass is "" or 0
NoMeta == [model |-> "", count |-> 0, cost |-> 0, credits |-> 0, amount |-> 0]

NewEvent(type, u, meta, t) ==
    [type |-> type, userId |-> u, timestamp |-> t, metadata |-> meta]

Retain_Oldest(events) ==
    IF Len(events) > RetentionCap THEN SubSeq(events, 1, RetentionCap) ELSE events

\* data.events.slice(-10000) once the array is longer than that
Retain(events) ==
    IF Len(events) > RetentionCap
    THEN SubSeq(events, Len(events) - RetentionCap + 1, Len(events))
    ELSE events

EmptyDaily(d) ==
    [date |-> d, imagesGenerated |-> 0, imagesFailed |-> 0, creditsPurchased |-> 0,
     creditsUsed |-> 0, revenue |-> 0, uniqueUsers |-> <<>>, modelsUsed |-> EmptyFn]

InSeq(x, s) == \E i \in 1..Len(s) : s[i] = x

\* the switch of trackEvent applied to the day's counters
DailyApply(day, type, u, meta) ==
    LET counted ==
          CASE type = "image_generated" ->
                 [day EXCEPT !.imagesGenerated = @ + 1,
                             !.modelsUsed =
                                 IF meta.model # ""
                                 THEN (meta.model :>
                                         ((IF meta.model \in DOMAIN @ THEN @[meta.model] ELSE 0) + 1)) @@ @
                                 ELSE @]
            [] type = "image_failed" ->
                 [day EXCEPT !.imagesFailed = @ + 1]
            [] type = "credits_purchased" ->
                 [day EXCEPT !.creditsPurchased = @ + meta.credits,
                             !.revenue = @ + meta.amount]
            [] type = "credits_used" ->
                 [day EXCEPT !.creditsUsed = @ + meta.credits]
            [] OTHER -> day
    IN  [counted EXCEPT !.uniqueUsers = IF InSeq(u, @) THEN @ ELSE Append(@, u)]

\* the switch of trackEvent applied to the running totals of the summary
SummaryCount(s, type, meta) ==
    CASE type = "image_generated" -> [s EXCEPT !.totalImagesGenerated = @ + 1]
      [] type = "image_failed" -> [s EXCEPT !.totalImagesFailed = @ + 1]
      [] type = "credits_purchased" ->
             [s EXCEPT !.totalCreditsPurchased = @ + meta.credits,
                       !.totalRevenue = @ + meta.amount]
      [] type = "credits_used" -> [s EXCEPT !.totalCreditsUsed = @ + meta.credits]
      [] OTHER -> s

AllUsers(events) == {events[i].userId : i \in 1..Len(events)}

PurchasingUsers(events) ==
    {events[i].userId : i \in {j \in 1..Len(events) : events[j].type = "credits_purchased"}}

\* modelCounts, in the insertion order of its keys: a model's place is that of its
\* first image_generated event, its count the number of such events
ModelCounts(events) ==
    LET gen == {i \in 1..Len(events) :
                   events[i].type = "image_generated" /\ events[i].metadata.model # ""}
        models == {events[i].metadata.model : i \in gen}
        of(m) == {i \in gen : events[i].metadata.model = m}
        first(m) == CHOOSE i \in of(m) : \A j \in of(m) : i <= j
        place(m) == Cardinality({k \in models : first(k) <= first(m)})
    IN  [r \in 1..Cardinality(models) |->
            LET m == CHOOSE k \in models : place(k) = r
            IN  [model |-> m, count |-> Cardinality(of(m))]]

\* insert e after every entry whose count is at least e's (a stable descending sort)
RECURSIVE InsertByCount(_, _)
InsertByCount(sorted, e) ==
    IF sorted = <<>> THEN <<e>>
    ELSE IF Head(sorted).count >= e.count
         THEN <<Head(sorted)>> \o InsertByCount(Tail(sorted), e)
         ELSE <<e>> \o sorted

RECURSIVE SortByCount(_, _)
SortByCount(entries, acc) ==
    IF entries = <<>> THEN acc
    ELSE SortByCount(Tail(entries), InsertByCount(acc, Head(entries)))

TopModels(events) ==
    LET sorted == SortByCount(ModelCounts(events), <<>>)
    IN  SubSeq(sorted, 1, IF Len(sorted) < TopModelsKept THEN Len(sorted) ELSE TopModelsKept)

\* "Recalculate summary", lines 297-326
SummaryRecalc(s, events, t) ==
    LET all == Cardinality(AllUsers(events))
        buyers == Cardinality(PurchasingUsers(events))
    IN  [s EXCEPT !.uniqueUsers = all,
                  !.conversionRate = IF all > 0 THEN Ratio(buyers * 100, all) ELSE <<0, 1>>,
                  !.avgRevenuePerUser = IF all > 0 THEN Ratio(s.totalRevenue, all) ELSE <<0, 1>>,
                  !.topModels = TopModels(events),
                  !.lastUpdated = t]

\* trackEvent, lines 228-326: everything between initAnalytics and saveAnalytics
TrackEventApply(an, type, u, meta, t) ==
    LET events == Retain(Append(an.events, NewEvent(type, u, meta, t)))
        d == DateOf(t)
        day == IF d \in DOMAIN an.daily THEN an.daily[d] ELSE EmptyDaily(d)
    IN  [present |-> TRUE,
         events |-> events,
         daily |-> (d :> DailyApply(day, type, u, meta)) @@ an.daily,
         summary |-> SummaryRecalc(SummaryCount(an.summary, type, meta), events, t)]

-----------------------------------------------------------------------------
(* Requests.  A request is a record: what was asked (kind and inputs), where *)
(* the handler stands (pc, and ret: the continuations of the calls it is     *)
(* inside), the locals of the function it is in, and its response.  The      *)
(* requests form a bag: two requests with the same inputs at the same place  *)
(* with the same locals are interchangeable.                                *)

NoRecord == [balance |-> 0, totalPurchased |-> 0, totalUsed |-> 0, updatedAt |-> 0]

NoResponse ==
    [status |-> 0, required |-> 0, balance |-> 0, creditsUsed |-> 0, remainingCredits |-> 0,
     creditsAdded |-> 0, images |-> 0, ok |-> FALSE, record |-> NoRecord]

NewRequest ==
    [kind |-> "", user |-> "", pc |-> "", ret |-> <<>>,
     \* inputs
     amount |-> 0, model |-> "", n |-> 0, valid |-> TRUE,
     tier |-> "", session |-> 0, image |-> 0,
     \* locals of the ledger function being executed, and what it returned
     callUser |-> "", callAmount |-> 0, callPaid |-> 0, data |-> EmptyFn,
     retRecord |-> NoRecord, retOk |-> FALSE,
     \* locals of trackEvent
     evType |-> "", evUser |-> "", evMeta |-> NoMeta, an |-> MissingAnalytics,
     \* locals of the handler
     cost |-> 0, credits |-> NoRecord, creditsUsed |-> 0, successCount |-> 0, i |-> 0,
     images |-> 0, pays |-> <<>>, payAmount |-> 0, payUser |-> "", payCredits |-> 0,
     \* kept for the statement of properties only: what was stored when the request
     \* arrived and when it was answered, how often it called the image provider,
     \* how many of those calls failed, and what its calls of useCredits returned
     preCredits |-> EmptyFn, prePayments |-> <<>>, preEvents |-> <<>>,
     postCredits |-> EmptyFn, postPayments |-> <<>>, postEvents |-> <<>>,
     extCalls |-> 0, extFails |-> 0, debits |-> <<>>,
     resp |-> NoResponse]

InFlight(q) == q.pc # "done"

Requests == BagToSet(req)

One(q) == SetToBag({q})

\* a request is admitted while the run has room and, in a serial run, nothing is in flight
CanAdmit ==
    /\ admitted < run.limit
    /\ run.serial => \A q \in Requests : ~InFlight(q)

\* a run that keeps its requests on record also notes what each found stored
Arrive(q) ==
    IF run.keep
    THEN [q EXCEPT !.preCredits = creditsFile,
                   !.prePayments = paymentsFile,
                   !.preEvents = analyticsFile.events]
    ELSE q

\* calls: push the continuation k and enter the callee at its first await
CallGetUserCredits(q, u, k) ==
    [q EXCEPT !.pc = "getUserCredits.read", !.callUser = u, !.ret = <<k>> \o @]

CallUseCredits(q, u, amount, k) ==
    [q EXCEPT !.pc = "useCredits.read", !.callUser = u, !.callAmount = amount,
              !.ret = <<k>> \o @]

CallAddCredits(q, u, amount, paid, k) ==
    [q EXCEPT !.pc = "addCredits.read", !.callUser = u, !.callAmount = amount,
              !.callPaid = paid, !.ret = <<k>> \o @]

CallTrackEvent(q, type, u, meta, k) ==
    [q EXCEPT !.pc = "trackEvent.read", !.evType = type, !.evUser = u, !.evMeta = meta,
              !.ret = <<k>> \o @]

\* the response is sent: the request is over and its locals are gone
Respond(q, resp) ==
    [q EXCEPT !.pc = "done", !.ret = <<>>, !.resp = resp,
              !.callUser = "", !.callAmount = 0, !.callPaid = 0, !.data = EmptyFn,
              !.retRecord = NoRecord, !.retOk = FALSE,
              !.evType = "", !.evUser = "", !.evMeta = NoMeta, !.an = MissingAnalytics,
              !.credits = NoRecord, !.pays = <<>>, !.i = 0]

-----------------------------------------------------------------------------
(* The image routes between their awaits (routes/images.ts) *)

\* lines 45, 138, 241, 346: credits.balance < cost
InsufficientCredits_NoneLeft(balance, cost) == balance <= 0

InsufficientCredits(balance, cost) == balance < cost

\* lines 46-51: res.status(402).json({required: cost, balance: credits.balance})
Reject402(q) ==
    Respond(q, [NoResponse EXCEPT !.status = 402, !.required = q.cost,
                                  !.balance = q.retRecord.balance])

\* fsSync.existsSync(metadataPath), lines 254 and 359
ImageExists(id) == uploads.dir /\ id \in 1..uploads.files

\* how many images the provider is asked for (services/openai.ts lines 52, 70, 87)
ImagesAsked(kind, model, n) ==
    CASE kind = "generate" -> IF model = "dall-e-3" THEN 1 ELSE IF n < 10 THEN n ELSE 10
      [] kind = "batch" -> 1
      [] OTHER -> IF n < 4 THEN n ELSE 4

\* lines 119-123, 211-215, 320-324, 427-431: 400 for a ZodError, 500 otherwise
AnswerError(q) ==
    Respond(q, [NoResponse EXCEPT !.status = IF q.valid THEN 500 ELSE 400])

\* the catch of /generate without its event, as the catch of the other routes is
GenerateCatch_NoEvent(q) == AnswerError(q)

\* lines 112-118: the catch of /generate logs image_failed before it answers
GenerateCatch(q) ==
    CallTrackEvent(q, "image_failed", q.user, [NoMeta EXCEPT !.model = q.model],
                   "generate.failed")

\* lines 203-208, 306-311, 413-418 (and 106-111 with creditsUsed = cost)
Respond200(q) ==
    Respond(q, [NoResponse EXCEPT !.status = 200, !.images = q.images,
                                  !.creditsUsed = q.creditsUsed,
                                  !.remainingCredits = q.credits.balance - q.creditsUsed])

\* /batch, lines 193-208: one image_generated event for the prompts that succeeded
BatchTrack(q) ==
    IF q.successCount > 0
    THEN CallTrackEvent(q, "image_generated", q.user,
                        [NoMeta EXCEPT !.model = q.model, !.count = q.successCount,
                                       !.cost = q.creditsUsed],
                        "batch.generated")
    ELSE Respond200(q)

\* the whole batch charged, failed prompts too
BatchSettle_ChargeAll(q) == CallUseCredits(q, q.user, q.cost, "batch.charged")

\* /batch after its loop, lines 186-190: one debit for the prompts that succeeded
BatchSettle(q) ==
    IF q.creditsUsed > 0
    THEN CallUseCredits(q, q.user, q.creditsUsed, "batch.charged")
    ELSE BatchTrack(q)

\* /batch, line 152: the next prompt, or the end of the loop
BatchNext(q) ==
    IF q.i < q.n THEN [q EXCEPT !.pc = "batch.external"] ELSE BatchSettle(q)

-----------------------------------------------------------------------------
(* Return of a call: the continuation on top of ret runs, up to the next    *)
(* await or to the response.                                               *)

RECURSIVE Return(_)
Return(q) ==
    LET k == Head(q.ret)
        p == [q EXCEPT !.ret = Tail(@)]
    IN  CASE k = "get.return" ->
               Respond(p, [NoResponse EXCEPT !.status = 200, !.record = p.retRecord])
          [] k = "debit.return" ->
               Respond(p, [NoResponse EXCEPT !.status = 200, !.ok = p.retOk])
          [] k = "credit.return" ->
               Respond(p, [NoResponse EXCEPT !.status = 200, !.record = p.retRecord])
          [] k = "track.return" ->
               Respond(p, [NoResponse EXCEPT !.status = 200])
          \* addCredits, line 157: return data[userId]
          [] k = "addCredits.tracked" ->
               Return([p EXCEPT !.retRecord = p.data[p.callUser], !.data = EmptyFn])
          \* verify, line 282: after addCredits, getUserCredits(userId)
          [] k = "verify.added" ->
               CallGetUserCredits(p, p.payUser, "verify.got")
          \* verify, line 283
          [] k = "verify.got" ->
               Respond(p, [NoResponse EXCEPT !.status = 200, !.creditsAdded = p.payCredits,
                                             !.balance = p.retRecord.balance])
          \* webhook, lines 321-326
          [] k = "webhook.added" ->
               Respond(p, [NoResponse EXCEPT !.status = 200])
          \* /generate, lines 45-56: the gate, then generateImage
          [] k = "generate.gate" ->
               IF InsufficientCredits(p.retRecord.balance, p.cost)
               THEN Reject402(p)
               ELSE [p EXCEPT !.credits = p.retRecord, !.pc = "generate.external"]
          \* /generate, line 97: after useCredits, whatever it returned
          [] k = "generate.charged" ->
               CallTrackEvent(p, "image_generated", p.user,
                              [NoMeta EXCEPT !.model = p.model, !.count = p.n, !.cost = p.cost],
                              "generate.generated")
          \* /generate, line 104
          [] k = "generate.generated" ->
               CallTrackEvent(p, "credits_used", p.user, [NoMeta EXCEPT !.credits = p.cost],
                              "generate.used")
          \* /generate, lines 106-111
          [] k = "generate.used" -> Respond200(p)
          \* /generate, lines 119-123
          [] k = "generate.failed" -> AnswerError(p)
          \* /batch, lines 138-152
          [] k = "batch.gate" ->
               IF InsufficientCredits(p.retRecord.balance, p.cost)
               THEN Reject402(p)
               ELSE BatchNext([p EXCEPT !.credits = p.retRecord])
          \* /batch, line 189
          [] k = "batch.charged" ->
               CallTrackEvent(p, "credits_used", p.user,
                              [NoMeta EXCEPT !.credits = p.creditsUsed], "batch.used")
          \* /batch, lines 193-201
          [] k = "batch.used" -> BatchTrack(p)
          [] k = "batch.generated" -> Respond200(p)
          \* /variations and /edit, lines 241-258 and 346-363: the gate, then the lookup
          [] k = "derive.gate" ->
               IF InsufficientCredits(p.retRecord.balance, p.cost)
               THEN Reject402(p)
               ELSE IF ~ImageExists(p.image)
                    THEN Respond(p, [NoResponse EXCEPT !.status = 404])
                    ELSE [p EXCEPT !.credits = p.retRecord, !.pc = "derive.download"]
          \* lines 299 and 406
          [] k = "derive.charged" ->
               CallTrackEvent(p, "credits_used", p.user, [NoMeta EXCEPT !.credits = p.cost],
                              "derive.used")
          \* lines 300-304 and 407-411
          [] k = "derive.used" ->
               CallTrackEvent(p, IF p.kind = "edit" THEN "image_edit" ELSE "image_variation",
                              p.user, [NoMeta EXCEPT !.count = p.n, !.cost = p.cost],
                              "derive.tracked")
          [] k = "derive.tracked" -> Respond200(p)

\* an answered request of a run that keeps its requests notes what is stored now
Answered(q) ==
    [q EXCEPT !.postCredits = creditsFile',
              !.postPayments = paymentsFile',
              !.postEvents = analyticsFile'.events]

Settle(q) ==
    IF q.pc = "done"
    THEN IF run.keep THEN One(Answered(q)) ELSE EmptyBag
    ELSE One(q)

\* request q moves on to q2
Step(q, q2) == req' = (req (-) One(q)) (+) Settle(q2)

\* a request arrives as q
Admit(q) ==
    /\ req' = req (+) Settle(q)
    /\ admitted' = admitted + 1

-----------------------------------------------------------------------------
(* getUserCredits, useCredits, addCredits: one action per file access *)

GetUserCreditsRead(q) ==
    LET u == q.callUser
    IN  /\ q.pc = "getUserCredits.read"
        /\ UNCHANGED <<creditsFile, paymentsFile, analyticsFile, sessions, uploads, now, admitted, run>>
        /\ IF HasRecord(creditsFile, u)
           THEN Step(q, Return([q EXCEPT !.retRecord = creditsFile[u]]))
           ELSE Step(q, [q EXCEPT !.pc = "getUserCredits.write",
                                  !.data = GetUserCreditsApply(creditsFile, u, now)])

GetUserCreditsWrite(q) ==
    /\ q.pc = "getUserCredits.write"
    /\ creditsFile' = q.data
    /\ UNCHANGED <<paymentsFile, analyticsFile, sessions, uploads, now, admitted, run>>
    /\ Step(q, Return([q EXCEPT !.retRecord = q.data[q.callUser], !.data = EmptyFn]))

UseCreditsRead(q) ==
    LET u == q.callUser
    IN  /\ q.pc = "useCredits.read"
        /\ UNCHANGED <<creditsFile, paymentsFile, analyticsFile, sessions, uploads, now, admitted, run>>
        /\ IF UseCreditsAllowed(creditsFile, u, q.callAmount)
           THEN Step(q, [q EXCEPT !.pc = "useCredits.write",
                                  !.data = UseCreditsApply(creditsFile, u, q.callAmount, now)])
           ELSE Step(q, Return([q EXCEPT !.retOk = FALSE,
                                         !.debits = IF run.keep THEN Append(@, FALSE) ELSE @]))

UseCreditsWrite(q) ==
    /\ q.pc = "useCredits.write"
    /\ creditsFile' = q.data
    /\ UNCHANGED <<paymentsFile, analyticsFile, sessions, uploads, now, admitted, run>>
    /\ Step(q, Return([q EXCEPT !.retOk = TRUE, !.data = EmptyFn,
                                !.debits = IF run.keep THEN Append(@, TRUE) ELSE @]))

AddCreditsRead(q) ==
    /\ q.pc = "addCredits.read"
    /\ UNCHANGED <<creditsFile, paymentsFile, analyticsFile, sessions, uploads, now, admitted, run>>
    /\ Step(q, [q EXCEPT !.pc = "addCredits.write",
                         !.data = AddCreditsApply(creditsFile, q.callUser, q.callAmount, now)])

\* the purchase event without the amount paid
PurchaseMeta_CreditsOnly(amount, paid) == [NoMeta EXCEPT !.credits = amount]

\* lines 152-155: {credits: amount, amount: amountPaid || 0}
PurchaseMeta(amount, paid) == [NoMeta EXCEPT !.credits = amount, !.amount = paid]

\* lines 149-155: the write, then trackEvent('credits_purchased', ...)
AddCreditsWrite(q) ==
    /\ q.pc = "addCredits.write"
    /\ creditsFile' = q.data
    /\ UNCHANGED <<paymentsFile, analyticsFile, sessions, uploads, now, admitted, run>>
    /\ Step(q, CallTrackEvent(q, "credits_purchased", q.callUser,
                              PurchaseMeta(q.callAmount, q.callPaid), "addCredits.tracked"))

\* an exception leaves the functions being executed and reaches the catch of the
\* handler: 500 from /checkout and /verify (credits.ts lines 241-244, 284-287) and
\* from a ledger function called on its own, the catch of the image routes; the
\* webhook has none around its reconciliation (lines 307-326), so it never answers
Throw(q) ==
    LET p == [q EXCEPT !.ret = <<>>, !.data = EmptyFn]
    IN  CASE q.kind = "generate" -> GenerateCatch(p)
          [] q.kind \in {"batch", "variations", "edit"} -> AnswerError(p)
          [] q.kind = "webhook" -> Respond(p, NoResponse)
          [] OTHER -> Respond(p, [NoResponse EXCEPT !.status = 500])

\* saveCreditsData, lines 89-91: fs.writeFile rejects and nothing is written
SaveCreditsDataFails(q) ==
    /\ q.pc \in {"getUserCredits.write", "useCredits.write", "addCredits.write"}
    /\ UNCHANGED <<creditsFile, paymentsFile, analyticsFile, sessions, uploads, now, admitted, run>>
    /\ Step(q, Throw(q))

-----------------------------------------------------------------------------
(* trackEvent: initAnalytics reads the file (and creates it when it cannot), *)
(* saveAnalytics writes it back                                             *)

TrackEventRead(q) ==
    /\ q.pc = "trackEvent.read"
    /\ UNCHANGED <<creditsFile, paymentsFile, analyticsFile, sessions, uploads, now, admitted, run>>
    /\ IF analyticsFile.present
       THEN Step(q, [q EXCEPT !.pc = "trackEvent.write",
                              !.an = TrackEventApply(analyticsFile, q.evType, q.evUser, q.evMeta, now)])
       ELSE Step(q, [q EXCEPT !.pc = "trackEvent.init", !.an = InitialAnalytics(now)])

TrackEventInit(q) ==
    /\ q.pc = "trackEvent.init"
    /\ analyticsFile' = q.an
    /\ UNCHANGED <<creditsFile, paymentsFile, sessions, uploads, now, admitted, run>>
    /\ Step(q, [q EXCEPT !.pc = "trackEvent.write",
                         !.an = TrackEventApply(q.an, q.evType, q.evUser, q.evMeta, now)])

TrackEventWrite(q) ==
    /\ q.pc = "trackEvent.write"
    /\ analyticsFile' = q.an
    /\ UNCHANGED <<creditsFile, paymentsFile, sessions, uploads, now, admitted, run>>
    /\ Step(q, Return([q EXCEPT !.an = MissingAnalytics, !.evType = "", !.evUser = "",
                                !.evMeta = NoMeta]))

\* time passes
Tick ==
    /\ now < MaxNow
    /\ now' = now + 1
    /\ UNCHANGED <<creditsFile, paymentsFile, analyticsFile, sessions, uploads, req, admitted, run>>

-----------------------------------------------------------------------------
(* The ledger operations called on their own *)

StartGet(u) ==
    /\ CanAdmit
    /\ UNCHANGED <<creditsFile, paymentsFile, analyticsFile, sessions, uploads, now, run>>
    /\ Admit(CallGetUserCredits(Arrive([NewRequest EXCEPT !.kind = "get", !.user = u]),
                                u, "get.return"))

StartDebit(u, amount) ==
    /\ CanAdmit
    /\ UNCHANGED <<creditsFile, paymentsFile, analyticsFile, sessions, uploads, now, run>>
    /\ Admit(CallUseCredits(Arrive([NewRequest EXCEPT !.kind = "debit", !.user = u,
                                                      !.amount = amount]),
                            u, amount, "debit.return"))

StartCredit(u, amount) ==
    /\ CanAdmit
    /\ UNCHANGED <<creditsFile, paymentsFile, analyticsFile, sessions, uploads, now, run>>
    /\ Admit(CallAddCredits(Arrive([NewRequest EXCEPT !.kind = "credit", !.user = u,
                                                      !.amount = amount]),
                            u, amount, 0, "credit.return"))

NoUploads == [dir |-> FALSE, files |-> 0]

Stores0 ==
    /\ creditsFile = EmptyFn
    /\ paymentsFile = <<>>
    /\ analyticsFile = MissingAnalytics
    /\ sessions = <<>>
    /\ now = 0
    /\ req = EmptyBag
    /\ admitted = 0

Files0 == Stores0 /\ uploads = NoUploads

\* concurrent ledger operations, every answered operation kept on record
InitLedger ==
    /\ Files0
    /\ run = [limit |-> MaxLedgerOps, serial |-> FALSE, keep |-> TRUE]

\* the same, the answered operations forgotten
InitLedgerFree ==
    /\ Files0
    /\ run = [limit |-> MaxLedgerOps, serial |-> FALSE, keep |-> FALSE]

NextLedger ==
    \/ \E u \in Users : StartGet(u)
    \/ \E u \in Users, a \in DebitAmounts : StartDebit(u, a)
    \/ \E u \in Users, a \in CreditAmounts : StartCredit(u, a)
    \/ \E q \in Requests : GetUserCreditsRead(q)
    \/ \E q \in Requests : GetUserCreditsWrite(q)
    \/ \E q \in Requests : UseCreditsRead(q)
    \/ \E q \in Requests : UseCreditsWrite(q)
    \/ \E q \in Requests : AddCreditsRead(q)
    \/ \E q \in Requests : AddCreditsWrite(q)
    \/ \E q \in Requests : TrackEventRead(q)
    \/ \E q \in Requests : TrackEventInit(q)
    \/ \E q \in Requests : TrackEventWrite(q)

SpecLedger == InitLedger /\ [][NextLedger]_vars

SpecLedgerFree == InitLedgerFree /\ [][NextLedger]_vars

MaxSerialLedgerOps == 3
SerialCreditAmounts == {0, 10}

\* ledger operations called one after the other, kept on record, time passing
InitLedgerSerial ==
    /\ Files0
    /\ run = [limit |-> MaxSerialLedgerOps, serial |-> TRUE, keep |-> TRUE]

NextLedgerSerial ==
    \/ \E u \in Users : StartGet(u)
    \/ \E u \in Users, a \in DebitAmounts : StartDebit(u, a)
    \/ \E u \in Users, a \in SerialCreditAmounts : StartCredit(u, a)
    \/ \E q \in Requests : GetUserCreditsRead(q)
    \/ \E q \in Requests : GetUserCreditsWrite(q)
    \/ \E q \in Requests : UseCreditsRead(q)
    \/ \E q \in Requests : UseCreditsWrite(q)
    \/ \E q \in Requests : AddCreditsRead(q)
    \/ \E q \in Requests : AddCreditsWrite(q)
    \/ \E q \in Requests : TrackEventRead(q)
    \/ \E q \in Requests : TrackEventInit(q)
    \/ \E q \in Requests : TrackEventWrite(q)
    \/ Tick

SpecLedgerSerial == InitLedgerSerial /\ [][NextLedgerSerial]_vars

-----------------------------------------------------------------------------
(* Payment reconciliation: checkout, verify and the webhook *)

TierIds == {CREDIT_TIERS[i].id : i \in 1..Len(CREDIT_TIERS)}

\* CREDIT_TIERS.find(t => t.id === tierId)
TierOf(id) == CREDIT_TIERS[CHOOSE i \in 1..Len(CREDIT_TIERS) : CREDIT_TIERS[i].id = id]

NoTime == -1

\* the record checkout pushes, lines 228-237
PendingPayment(u, tierId, s, t) ==
    [id |-> t, userId |-> u, tierId |-> tierId, credits |-> TierOf(tierId).credits,
     amount |-> TierOf(tierId).price, status |-> "pending", stripeSessionId |-> s,
     createdAt |-> t, completedAt |-> NoTime]

\* payments.find(p => p.stripeSessionId === sessionId): its index, 0 when there is none
FindPayment(pays, s) ==
    LET hits == {i \in 1..Len(pays) : pays[i].stripeSessionId = s}
    IN  IF hits = {} THEN 0 ELSE CHOOSE i \in hits : \A j \in hits : i <= j

\* the test of lines 273 and 316 with the status left out
MustReconcile_AnyStatus(pays, s) == FindPayment(pays, s) # 0

\* payment && payment.status === 'pending', lines 273 and 316
MustReconcile(pays, s) ==
    FindPayment(pays, s) # 0 /\ pays[FindPayment(pays, s)].status = "pending"

\* lines 274-275 and 317-318
MarkCompleted(pays, s, t) ==
    [pays EXCEPT ![FindPayment(pays, s)] = [@ EXCEPT !.status = "completed", !.completedAt = t]]

\* the session the processor creates for checkout, with the metadata of lines 219-223;
\* open: the customer has been given its url
NewSession(u, tierId) ==
    [userId |-> u, tierId |-> tierId, credits |-> TierOf(tierId).credits,
     paid |-> FALSE, open |-> FALSE]

StartCheckout(u, tierId) ==
    /\ CanAdmit
    /\ UNCHANGED <<creditsFile, paymentsFile, analyticsFile, sessions, uploads, now, run>>
    /\ LET q == Arrive([NewRequest EXCEPT !.kind = "checkout", !.user = u, !.tier = tierId])
       IN  IF tierId \in TierIds
           THEN Admit([q EXCEPT !.pc = "checkout.create"])
           ELSE Admit(Respond(q, [NoResponse EXCEPT !.status = 400]))

\* stripe.checkout.sessions.create, lines 203-224, then the catch of line 241
StripeCreateSession(q) ==
    /\ q.pc = "checkout.create"
    /\ UNCHANGED <<creditsFile, paymentsFile, analyticsFile, uploads, now, admitted, run>>
    /\ \/ /\ sessions' = Append(sessions, NewSession(q.user, q.tier))
          /\ Step(q, [q EXCEPT !.pc = "checkout.read", !.session = Len(sessions) + 1])
       \/ /\ UNCHANGED sessions
          /\ Step(q, Respond(q, [NoResponse EXCEPT !.status = 500]))

CheckoutReadPayments(q) ==
    /\ q.pc = "checkout.read"
    /\ UNCHANGED <<creditsFile, paymentsFile, analyticsFile, sessions, uploads, now, admitted, run>>
    /\ Step(q, [q EXCEPT !.pc = "checkout.write",
                         !.pays = Append(paymentsFile,
                                         PendingPayment(q.user, q.tier, q.session, now))])

CheckoutWritePayments(q) ==
    /\ q.pc = "checkout.write"
    /\ paymentsFile' = q.pays
    /\ sessions' = [sessions EXCEPT ![q.session].open = TRUE]
    /\ UNCHANGED <<creditsFile, analyticsFile, uploads, now, admitted, run>>
    /\ Step(q, Respond(q, [NoResponse EXCEPT !.status = 200]))

\* the customer pays on the processor's page
CustomerPays(s) ==
    /\ s \in 1..Len(sessions)
    /\ sessions[s].open /\ ~sessions[s].paid
    /\ sessions' = [sessions EXCEPT ![s].paid = TRUE]
    /\ UNCHANGED <<creditsFile, paymentsFile, analyticsFile, uploads, now, req, admitted, run>>

\* the payment status not looked at
NotPaid_Unchecked(session) == FALSE

\* line 259: session.payment_status !== 'paid'
NotPaid(session) == ~session.paid

StartVerify(s) ==
    /\ CanAdmit
    /\ UNCHANGED <<creditsFile, paymentsFile, analyticsFile, sessions, uploads, now, run>>
    /\ Admit([Arrive([NewRequest EXCEPT !.kind = "verify", !.session = s])
                EXCEPT !.pc = "verify.retrieve"])

\* stripe.checkout.sessions.retrieve and the tests of lines 259-268
StripeRetrieveSession(q) ==
    /\ q.pc = "verify.retrieve"
    /\ UNCHANGED <<creditsFile, paymentsFile, analyticsFile, sessions, uploads, now, admitted, run>>
    /\ \/ /\ q.session \in 1..Len(sessions)
          /\ LET session == sessions[q.session]
             IN  IF NotPaid(session)
                 THEN Step(q, Respond(q, [NoResponse EXCEPT !.status = 400]))
                 ELSE IF session.userId = "" \/ session.credits = 0
                 THEN Step(q, Respond(q, [NoResponse EXCEPT !.status = 400]))
                 ELSE Step(q, [q EXCEPT !.pc = "verify.read", !.payUser = session.userId,
                                        !.payCredits = session.credits])
       \* the processor does not know the session, or cannot be reached
       \/ Step(q, Respond(q, [NoResponse EXCEPT !.status = 500]))

VerifyReadPayments(q) ==
    /\ q.pc = "verify.read"
    /\ UNCHANGED <<creditsFile, paymentsFile, analyticsFile, sessions, uploads, now, admitted, run>>
    /\ IF MustReconcile(paymentsFile, q.session)
       THEN Step(q, [q EXCEPT !.pc = "verify.write",
                              !.pays = MarkCompleted(paymentsFile, q.session, now),
                              !.payAmount = paymentsFile[FindPayment(paymentsFile, q.session)].amount])
       ELSE Step(q, CallGetUserCredits(q, q.payUser, "verify.got"))

VerifyWritePayments(q) ==
    /\ q.pc = "verify.write"
    /\ paymentsFile' = q.pays
    /\ UNCHANGED <<creditsFile, analyticsFile, sessions, uploads, now, admitted, run>>
    /\ Step(q, CallAddCredits([q EXCEPT !.pays = <<>>], q.payUser, q.payCredits, q.payAmount,
                              "verify.added"))

\* the processor reports checkout.session.completed for a paid session; lines 292-312
StartWebhook(s) ==
    /\ CanAdmit
    /\ s \in 1..Len(sessions)
    /\ sessions[s].paid
    /\ UNCHANGED <<creditsFile, paymentsFile, analyticsFile, sessions, uploads, now, run>>
    /\ LET q == Arrive([NewRequest EXCEPT !.kind = "webhook", !.session = s])
       IN  IF sessions[s].userId # "" /\ sessions[s].credits # 0
           THEN Admit([q EXCEPT !.pc = "webhook.read", !.payUser = sessions[s].userId,
                                !.payCredits = sessions[s].credits])
           ELSE Admit(Respond(q, [NoResponse EXCEPT !.status = 200]))

WebhookReadPayments(q) ==
    /\ q.pc = "webhook.read"
    /\ UNCHANGED <<creditsFile, paymentsFile, analyticsFile, sessions, uploads, now, admitted, run>>
    /\ IF MustReconcile(paymentsFile, q.session)
       THEN Step(q, [q EXCEPT !.pc = "webhook.write",
                              !.pays = MarkCompleted(paymentsFile, q.session, now),
                              !.payAmount = paymentsFile[FindPayment(paymentsFile, q.session)].amount])
       ELSE Step(q, Respond(q, [NoResponse EXCEPT !.status = 200]))

WebhookWritePayments(q) ==
    /\ q.pc = "webhook.write"
    /\ paymentsFile' = q.pays
    /\ UNCHANGED <<creditsFile, analyticsFile, sessions, uploads, now, admitted, run>>
    /\ Step(q, CallAddCredits([q EXCEPT !.pays = <<>>], q.payUser, q.payCredits, q.payAmount,
                              "webhook.added"))

\* the tiers and sessions the payment requests are exercised with
CheckoutTiers == {"starter", "pro"}
MaxPayRequests == 3
MaxSerialPayRequests == 3
MaxSessions == 3
SessionIds == 1..MaxSessions

\* concurrent checkout, verify and webhook requests, kept on record
InitPay ==
    /\ Files0
    /\ run = [limit |-> MaxPayRequests, serial |-> FALSE, keep |-> TRUE]

\* balance reads and payment requests handled one at a time, kept on record
InitPaySerial ==
    /\ Files0
    /\ run = [limit |-> MaxSerialPayRequests, serial |-> TRUE, keep |-> TRUE]

NextPay ==
    \/ \E u \in Users, t \in CheckoutTiers : StartCheckout(u, t)
    \/ \E s \in SessionIds : StartVerify(s)
    \/ \E s \in SessionIds : StartWebhook(s)
    \/ \E s \in SessionIds : CustomerPays(s)
    \/ \E q \in Requests : StripeCreateSession(q)
    \/ \E q \in Requests : CheckoutReadPayments(q)
    \/ \E q \in Requests : CheckoutWritePayments(q)
    \/ \E q \in Requests : StripeRetrieveSession(q)
    \/ \E q \in Requests : VerifyReadPayments(q)
    \/ \E q \in Requests : VerifyWritePayments(q)
    \/ \E q \in Requests : WebhookReadPayments(q)
    \/ \E q \in Requests : WebhookWritePayments(q)
    \/ \E q \in Requests : GetUserCreditsRead(q)
    \/ \E q \in Requests : GetUserCreditsWrite(q)
    \/ \E q \in Requests : AddCreditsRead(q)
    \/ \E q \in Requests : AddCreditsWrite(q)
    \/ \E q \in Requests : TrackEventRead(q)
    \/ \E q \in Requests : TrackEventInit(q)
    \/ \E q \in Requests : TrackEventWrite(q)

SpecPay == InitPay /\ [][NextPay]_vars

NextPaySerial ==
    \/ NextPay
    \/ \E u \in Users : StartGet(u)

SpecPaySerial == InitPaySerial /\ [][NextPaySerial]_vars

MaxProcessorSessions == 1

\* a paid session of the processor's account that payments.json has no record of
\* (made by another deployment, or before the file was lost), with whatever
\* metadata it was made with
ProcessorSession(u, credits) ==
    /\ Len(sessions) < MaxProcessorSessions
    /\ sessions' = Append(sessions, [userId |-> u, tierId |-> "", credits |-> credits,
                                     paid |-> TRUE, open |-> TRUE])
    /\ UNCHANGED <<creditsFile, paymentsFile, analyticsFile, uploads, now, req, admitted, run>>

MetadataUsers == {"u1", ""}
MetadataCredits == {0, 10}

\* one user's pro checkouts and their reconciliation, one request at a time, the
\* processor holding such sessions too
NextPayOpen ==
    \/ StartCheckout("u1", "pro")
    \/ \E u \in MetadataUsers, c \in MetadataCredits : ProcessorSession(u, c)
    \/ \E s \in SessionIds : StartVerify(s)
    \/ \E s \in SessionIds : StartWebhook(s)
    \/ \E s \in SessionIds : CustomerPays(s)
    \/ \E q \in Requests : StripeCreateSession(q)
    \/ \E q \in Requests : CheckoutReadPayments(q)
    \/ \E q \in Requests : CheckoutWritePayments(q)
    \/ \E q \in Requests : StripeRetrieveSession(q)
    \/ \E q \in Requests : VerifyReadPayments(q)
    \/ \E q \in Requests : VerifyWritePayments(q)
    \/ \E q \in Requests : WebhookReadPayments(q)
    \/ \E q \in Requests : WebhookWritePayments(q)
    \/ \E q \in Requests : GetUserCreditsRead(q)
    \/ \E q \in Requests : GetUserCreditsWrite(q)
    \/ \E q \in Requests : AddCreditsRead(q)
    \/ \E q \in Requests : AddCreditsWrite(q)
    \/ \E q \in Requests : TrackEventRead(q)
    \/ \E q \in Requests : TrackEventInit(q)
    \/ \E q \in Requests : TrackEventWrite(q)

SpecPayOpen == InitPaySerial /\ [][NextPayOpen]_vars

\* the same requests, one at a time, on storage whose writes of credits.json may fail
NextPayFaulty ==
    \/ NextPaySerial
    \/ \E q \in Requests : SaveCreditsDataFails(q)

SpecPayFaulty == InitPaySerial /\ [][NextPayFaulty]_vars

-----------------------------------------------------------------------------
(* The image routes (routes/images.ts): the provider calls and the writes   *)
(* of the uploads directory. Reading the metadata of the original, fetching *)
(* it and writing the temporary copy touch nothing another request changes  *)
(* and are one step.                                                        *)

Others == <<creditsFile, paymentsFile, analyticsFile, sessions, now, admitted, run>>

\* lines 36-43 (and the catch, for a body the schema rejects)
StartGenerate(u, model, n, valid) ==
    /\ CanAdmit
    /\ UNCHANGED <<creditsFile, paymentsFile, analyticsFile, sessions, uploads, now, run>>
    /\ LET q == Arrive([NewRequest EXCEPT !.kind = "generate", !.user = u, !.model = model,
                                          !.n = n, !.valid = valid])
       IN  IF valid
           THEN Admit(CallGetUserCredits([q EXCEPT !.cost = CostOf(model) * n], u,
                                         "generate.gate"))
           ELSE Admit(GenerateCatch(q))

\* lines 56-63: generateImage answers with the images or throws
GenerateImage(q) ==
    /\ q.pc = "generate.external"
    /\ UNCHANGED <<uploads, Others>>
    /\ LET c == [q EXCEPT !.extCalls = IF run.keep THEN @ + 1 ELSE @]
       IN  \/ Step(q, [c EXCEPT !.pc = "generate.save",
                                !.images = ImagesAsked(q.kind, q.model, q.n)])
           \/ Step(q, GenerateCatch([c EXCEPT !.extFails = IF run.keep THEN @ + 1 ELSE @]))

\* lines 66-94: mkdir, one metadata file per image, then useCredits(userId, cost)
SaveGenerated(q) ==
    /\ q.pc = "generate.save"
    /\ uploads' = [dir |-> TRUE, files |-> uploads.files + q.images]
    /\ UNCHANGED Others
    /\ Step(q, CallUseCredits([q EXCEPT !.creditsUsed = q.cost], q.user, q.cost,
                              "generate.charged"))

\* lines 128-136
StartBatch(u, model, prompts, valid) ==
    /\ CanAdmit
    /\ UNCHANGED <<creditsFile, paymentsFile, analyticsFile, sessions, uploads, now, run>>
    /\ LET q == Arrive([NewRequest EXCEPT !.kind = "batch", !.user = u, !.model = model,
                                          !.n = prompts, !.valid = valid])
       IN  IF valid
           THEN Admit(CallGetUserCredits([q EXCEPT !.cost = CostOf(model) * prompts], u,
                                         "batch.gate"))
           ELSE Admit(AnswerError(q))

\* lines 153-160 and 181-183: generateImage for one prompt; its failure is that
\* prompt's alone
BatchGenerateImage(q) ==
    /\ q.pc = "batch.external"
    /\ UNCHANGED <<uploads, Others>>
    /\ LET c == [q EXCEPT !.extCalls = IF run.keep THEN @ + 1 ELSE @]
       IN  \/ Step(q, [c EXCEPT !.pc = "batch.save"])
           \/ Step(q, BatchNext([c EXCEPT !.i = @ + 1,
                                          !.extFails = IF run.keep THEN @ + 1 ELSE @]))

\* lines 162-183: the metadata file of one prompt; no mkdir here, so the write
\* throws when the directory is missing and the prompt counts as failed
BatchSave(q) ==
    /\ q.pc = "batch.save"
    /\ UNCHANGED Others
    /\ IF uploads.dir
       THEN /\ uploads' = [uploads EXCEPT !.files = @ + 1]
            /\ Step(q, BatchNext([q EXCEPT !.i = @ + 1, !.images = @ + 1,
                                           !.successCount = @ + 1,
                                           !.creditsUsed = @ + CostOf(q.model)]))
       ELSE /\ UNCHANGED uploads
            /\ Step(q, BatchNext([q EXCEPT !.i = @ + 1]))

\* lines 231-239 and 336-344: variations and edits cost what dall-e-2 does
StartDerive(kind, u, image, n, valid) ==
    /\ CanAdmit
    /\ UNCHANGED <<creditsFile, paymentsFile, analyticsFile, sessions, uploads, now, run>>
    /\ LET q == Arrive([NewRequest EXCEPT !.kind = kind, !.user = u, !.image = image,
                                          !.n = n, !.valid = valid])
       IN  IF valid
           THEN Admit(CallGetUserCredits([q EXCEPT !.cost = CostOf("dall-e-2") * n], u,
                                         "derive.gate"))
           ELSE Admit(AnswerError(q))

StartVariations(u, image, n, valid) == StartDerive("variations", u, image, n, valid)

StartEdit(u, image, n, valid) == StartDerive("edit", u, image, n, valid)

\* lines 258-263 and 363-368: the original is fetched, or axios throws
DownloadOriginal(q) ==
    /\ q.pc = "derive.download"
    /\ UNCHANGED <<uploads, Others>>
    /\ \/ Step(q, [q EXCEPT !.pc = "derive.external"])
       \/ Step(q, AnswerError(q))

\* the provider call of /variations and /edit
CreateDerived(q) ==
    /\ q.pc = "derive.external"
    /\ UNCHANGED <<uploads, Others>>
    /\ LET c == [q EXCEPT !.extCalls = IF run.keep THEN @ + 1 ELSE @]
       IN  \/ Step(q, [c EXCEPT !.pc = "derive.save",
                                !.images = ImagesAsked(q.kind, "dall-e-2", q.n)])
           \/ Step(q, AnswerError([c EXCEPT !.extFails = IF run.keep THEN @ + 1 ELSE @]))

\* lines 267-272
CreateVariations(q) == q.kind = "variations" /\ CreateDerived(q)

\* lines 372-378
CreateEdit(q) == q.kind = "edit" /\ CreateDerived(q)

\* lines 275-298 and 381-405: one metadata file per image, then useCredits
SaveDerived(q) ==
    /\ q.pc = "derive.save"
    /\ uploads' = [uploads EXCEPT !.files = @ + q.images]
    /\ UNCHANGED Others
    /\ Step(q, CallUseCredits([q EXCEPT !.creditsUsed = q.cost], q.user, q.cost,
                              "derive.charged"))

MaxImageRequests == 3
ImageUsers == {"u1"}
GenerateModels == {"dall-e-3"}
BatchModels == {"dall-e-3"}
Counts == {1, 3}
PromptCounts == {2, 3}
ImageIds == {1, 2}

\* image requests handled one at a time, kept on record; the uploads directory
\* may or may not exist when the server starts
InitImages ==
    /\ Stores0
    /\ uploads \in {[dir |-> d, files |-> 0] : d \in BOOLEAN}
    /\ run = [limit |-> MaxImageRequests, serial |-> TRUE, keep |-> TRUE]

NextImages ==
    \/ \E u \in ImageUsers, m \in GenerateModels, n \in Counts : StartGenerate(u, m, n, TRUE)
    \/ \E u \in ImageUsers : StartGenerate(u, "", 0, FALSE)
    \/ \E u \in ImageUsers, m \in BatchModels, k \in PromptCounts : StartBatch(u, m, k, TRUE)
    \/ \E u \in ImageUsers : StartBatch(u, "", 0, FALSE)
    \/ \E u \in ImageUsers, i \in ImageIds, n \in Counts : StartVariations(u, i, n, TRUE)
    \/ \E u \in ImageUsers, i \in ImageIds : StartVariations(u, i, 0, FALSE)
    \/ \E u \in ImageUsers, i \in ImageIds, n \in Counts : StartEdit(u, i, n, TRUE)
    \/ \E u \in ImageUsers, i \in ImageIds : StartEdit(u, i, 0, FALSE)
    \/ \E q \in Requests : GenerateImage(q)
    \/ \E q \in Requests : SaveGenerated(q)
    \/ \E q \in Requests : BatchGenerateImage(q)
    \/ \E q \in Requests : BatchSave(q)
    \/ \E q \in Requests : DownloadOriginal(q)
    \/ \E q \in Requests : CreateVariations(q)
    \/ \E q \in Requests : CreateEdit(q)
    \/ \E q \in Requests : SaveDerived(q)
    \/ \E q \in Requests : GetUserCreditsRead(q)
    \/ \E q \in Requests : GetUserCreditsWrite(q)
    \/ \E q \in Requests : UseCreditsRead(q)
    \/ \E q \in Requests : UseCreditsWrite(q)
    \/ \E q \in Requests : TrackEventRead(q)
    \/ \E q \in Requests : TrackEventInit(q)
    \/ \E q \in Requests : TrackEventWrite(q)

SpecImages == InitImages /\ [][NextImages]_vars

-----------------------------------------------------------------------------
(* Properties of the ledger store *)

AllAnswered == admitted = run.limit /\ \A q \in Requests : ~InFlight(q)

\* how many requests of the bag satisfy P
Count(P(_)) == BagCardinality([q \in {x \in Requests : P(x)} |-> req[q]])

\* C2: after every operation of any run of get, debit and credit operations, the
\* stored balance of every user is at least 0
C2_BalanceNeverNegative ==
    \A u \in DOMAIN creditsFile : creditsFile[u].balance >= 0

\* C2 witness: debits have brought a starter balance down to exactly 0
C2_Witness ==
    \E u \in DOMAIN creditsFile :
        creditsFile[u].balance = 0 /\ creditsFile[u].totalUsed = StarterBalance

\* C3: for every user with a ledger record,
\* balance = totalPurchased - totalUsed + the starter balance
C3_BalanceEquation ==
    \A u \in DOMAIN creditsFile :
        creditsFile[u].balance
            = creditsFile[u].totalPurchased - creditsFile[u].totalUsed + StarterBalance

\* C4: when the record of u was created by one get and N debits of cost c then all
\* arrived at the starter balance B, exactly B \div c of them return true and the
\* final balance is B - c * (B \div c)
C4_ConcurrentDebits ==
    \A u \in Users, c \in DebitAmounts :
        LET IsGet(q) == q.kind = "get" /\ q.user = u
            IsDebit(q) == q.kind = "debit" /\ q.user = u /\ q.amount = c
            Succeeded(q) == IsDebit(q) /\ q.resp.ok
        IN  ( /\ AllAnswered
              /\ Count(IsGet) = 1
              /\ Count(IsDebit) = run.limit - 1
              /\ \A q \in Requests :
                    IsDebit(q) => /\ HasRecord(q.preCredits, u)
                                  /\ q.preCredits[u].balance = StarterBalance )
            => /\ Count(Succeeded) = StarterBalance \div c
               /\ creditsFile[u].balance = StarterBalance - c * (StarterBalance \div c)

\* C5: when a debit of d and a credit of a for the same user both arrive at the
\* record R and the debit succeeds, the final record has balance R.balance + a - d,
\* totalPurchased R.totalPurchased + a and totalUsed R.totalUsed + d
C5_NoLostUpdate ==
    \A u \in Users, d \in DebitAmounts, a \in CreditAmounts :
        LET IsGet(q) == q.kind = "get" /\ q.user = u
            IsDebit(q) == q.kind = "debit" /\ q.user = u /\ q.amount = d
            IsCredit(q) == q.kind = "credit" /\ q.user = u /\ q.amount = a
            Succeeded(q) == IsDebit(q) /\ q.resp.ok
        IN  ( /\ AllAnswered
              /\ Count(IsGet) = 1 /\ Count(IsDebit) = 1 /\ Count(IsCredit) = 1
              /\ Count(Succeeded) = 1
              /\ \A q \in Requests :
                    (IsDebit(q) \/ IsCredit(q))
                        => /\ HasRecord(q.preCredits, u)
                           /\ q.preCredits[u].balance = StarterBalance )
            => /\ creditsFile[u].balance = StarterBalance + a - d
               /\ creditsFile[u].totalPurchased = a
               /\ creditsFile[u].totalUsed = d

-----------------------------------------------------------------------------
(* Properties of payment reconciliation *)

\* the stored status of the payment record of session s
StatusOf(pays, s) ==
    IF FindPayment(pays, s) = 0 THEN "absent" ELSE pays[FindPayment(pays, s)].status

RecordOf(data, u) == IF HasRecord(data, u) THEN data[u] ELSE BlankRecord(0)

IsReconcile(q) == q.kind \in {"verify", "webhook"}

\* C1: while one checkout has been made, however one verify request and one
\* webhook delivery for its session interleave, the payment's credits are added to the ledger no more
\* than once (the second handler to arrive adds nothing): the user's totalPurchased
\* never exceeds the payment's credits, nor the balance those credits on top of the
\* starter balance
C1_CreditedOncePerPayment ==
    (/\ Len(sessions) = 1
     /\ Count(LAMBDA q : q.kind = "verify") <= 1
     /\ Count(LAMBDA q : q.kind = "webhook") <= 1
     /\ HasRecord(creditsFile, sessions[1].userId))
        => LET rec == creditsFile[sessions[1].userId]
           IN  /\ rec.totalPurchased <= sessions[1].credits
               /\ rec.balance <= sessions[1].credits + StarterBalance

\* C6: in a serial run, a verify or webhook call that finds the payment record of
\* its session completed leaves payments, ledger and events as they were; one that
\* finds it pending completes it and adds the payment's credits to the balance and
\* to totalPurchased of its user, once
C6_SequentialIdempotence ==
    \A q \in Requests :
        (IsReconcile(q) /\ ~InFlight(q) /\ q.resp.status = 200)
        => LET u == sessions[q.session].userId
               c == sessions[q.session].credits
               before == RecordOf(q.preCredits, u)
               after == RecordOf(q.postCredits, u)
           IN  /\ StatusOf(q.prePayments, q.session) = "completed"
                    => /\ q.postPayments = q.prePayments
                       /\ q.postCredits = q.preCredits
                       /\ q.postEvents = q.preEvents
               /\ StatusOf(q.prePayments, q.session) = "pending"
                    => /\ StatusOf(q.postPayments, q.session) = "completed"
                       /\ after.balance = before.balance + c
                       /\ after.totalPurchased = before.totalPurchased + c
                       /\ after.totalUsed = before.totalUsed

\* C6 witness: a pro checkout reconciled by a first call (+50) and met again by a
\* second call, which added nothing
C6_Witness ==
    \E q1 \in Requests, q2 \in Requests :
        /\ IsReconcile(q1) /\ IsReconcile(q2) /\ ~InFlight(q1) /\ ~InFlight(q2)
        /\ q1.resp.status = 200 /\ q2.resp.status = 200
        /\ q1.session = q2.session
        /\ sessions[q1.session].tierId = "pro"
        /\ StatusOf(q1.prePayments, q1.session) = "pending"
        /\ StatusOf(q2.prePayments, q2.session) = "completed"
        /\ q2.postCredits = q1.postCredits
        /\ q1.postCredits[sessions[q1.session].userId].totalPurchased = 50

\* C7: a payment record stored as completed is not stored as pending afterwards
C7_CompletedStaysCompleted ==
    [][\A s \in SessionIds :
          StatusOf(paymentsFile, s) = "completed" => StatusOf(paymentsFile', s) # "pending"]_vars

-----------------------------------------------------------------------------
(* Properties of the image routes, requests handled one at a time *)

IsImageRequest(q) == q.kind \in {"generate", "batch", "variations", "edit"}

\* what a request costs by the price list: the model's price (dall-e-2's for a
\* variation or an edit) times the number of images or prompts asked for
Price(q) ==
    (IF q.kind \in {"generate", "batch"} THEN MODEL_CREDIT_COSTS[q.model]
                                          ELSE MODEL_CREDIT_COSTS["dall-e-2"]) * q.n

\* a user's ledger as a balance read shows it: the starter record while none is stored
LedgerView(data, u) ==
    IF HasRecord(data, u)
    THEN [balance |-> data[u].balance, totalPurchased |-> data[u].totalPurchased,
          totalUsed |-> data[u].totalUsed]
    ELSE [balance |-> StarterBalance, totalPurchased |-> 0, totalUsed |-> 0]

\* the events logged between a request's arrival and its answer
Logged(q) == SubSeq(q.postEvents, Len(q.preEvents) + 1, Len(q.postEvents))

CountType(events, type) == Cardinality({i \in 1..Len(events) : events[i].type = type})

C9_FailedGenerationNotCharged ==
    \A q \in Requests :
        ~InFlight(q) =>
          /\ (q.kind = "generate" /\ q.extFails > 0)
                => /\ q.debits = <<>>
                   /\ LedgerView(q.postCredits, q.user) = LedgerView(q.preCredits, q.user)
                   /\ Len(Logged(q)) = 1
                   /\ Logged(q)[1].type = "image_failed"
                   /\ Logged(q)[1].userId = q.user
          /\ (\E i \in 1..Len(q.debits) : q.debits[i])
                => CountType(Logged(q), "image_failed") = 0

\* C9 witness: a user who had paid for one generation had the next one fail
C9_Witness ==
    \E q \in Requests :
        /\ q.kind = "generate" /\ ~InFlight(q) /\ q.extFails = 1 /\ q.resp.status = 500
        /\ LedgerView(q.preCredits, q.user).totalUsed > 0
        /\ CountType(q.postEvents, "image_failed") = 1

\* C10: a generate request that passed the gate and whose provider call succeeded
\* is answered 200, debits the user by exactly its cost (balance down, totalUsed up
\* by it) and logs exactly one image_generated event and one credits_used event
\* with credits = cost; a new user's dall-e-3 image leaves balance 3
C10_SuccessfulGenerationCharged ==
    \A q \in Requests :
        (q.kind = "generate" /\ ~InFlight(q) /\ q.extCalls = 1 /\ q.extFails = 0)
        => LET before == LedgerView(q.preCredits, q.user)
               after == LedgerView(q.postCredits, q.user)
               used == {i \in 1..Len(Logged(q)) : Logged(q)[i].type = "credits_used"}
           IN  /\ q.resp.status = 200
               /\ q.resp.creditsUsed = Price(q)
               /\ q.debits = <<TRUE>>
               /\ after.balance = before.balance - Price(q)
               /\ after.totalUsed = before.totalUsed + Price(q)
               /\ after.totalPurchased = before.totalPurchased
               /\ Len(Logged(q)) = 2
               /\ CountType(Logged(q), "image_generated") = 1
               /\ Cardinality(used) = 1
               /\ \A i \in used : Logged(q)[i].metadata.credits = Price(q)
               /\ (~HasRecord(q.preCredits, q.user) /\ q.model = "dall-e-3" /\ q.n = 1)
                    => after.balance = 3

\* C10 witness: a new user's first request, one dall-e-3 image, answered 200 with
\* balance 3 stored
C10_Witness ==
    \E q \in Requests :
        /\ q.kind = "generate" /\ ~InFlight(q) /\ q.resp.status = 200
        /\ q.model = "dall-e-3" /\ q.n = 1
        /\ ~HasRecord(q.preCredits, q.user)
        /\ q.postCredits[q.user].balance = 3
        /\ q.postCredits[q.user].totalUsed = 2

\* C11: a batch of k prompts answered with s successes has debited the user once,
\* after its last prompt, by s times the model's price when s > 0 and not at all
\* when s = 0; with s > 0 it has logged exactly one image_generated event with
\* count = s and one credits_used event with credits = s times the price, with
\* s = 0 no event; until the loop is over nothing is debited
C11_BatchChargesSuccesses ==
    \A q \in Requests :
        q.kind = "batch" =>
          /\ q.pc \in {"batch.external", "batch.save"} => q.debits = <<>>
          /\ (~InFlight(q) /\ q.resp.status = 200) =>
                LET succeeded == q.resp.images
                    c == succeeded * MODEL_CREDIT_COSTS[q.model]
                    before == LedgerView(q.preCredits, q.user)
                    after == LedgerView(q.postCredits, q.user)
                    log == Logged(q)
                IN  /\ succeeded = q.extCalls - q.extFails \/ succeeded = 0
                    /\ succeeded <= q.n
                    /\ q.resp.creditsUsed = c
                    /\ q.debits = IF succeeded > 0 THEN <<TRUE>> ELSE <<>>
                    /\ after.balance = before.balance - c
                    /\ after.totalUsed = before.totalUsed + c
                    /\ after.totalPurchased = before.totalPurchased
                    /\ Len(log) = IF succeeded > 0 THEN 2 ELSE 0
                    /\ succeeded > 0 =>
                          /\ \E i \in 1..2 : /\ log[i].type = "image_generated"
                                              /\ log[i].metadata.count = succeeded
                          /\ \E i \in 1..2 : /\ log[i].type = "credits_used"
                                              /\ log[i].metadata.credits = c

\* C11 witness: a batch of two dall-e-3 prompts, one failed, charged 2 for the other
C11_Witness ==
    \E q \in Requests :
        /\ q.kind = "batch" /\ ~InFlight(q) /\ q.resp.status = 200
        /\ q.n = 2 /\ q.extFails = 1 /\ q.resp.images = 1
        /\ q.debits = <<TRUE>>
        /\ LedgerView(q.postCredits, q.user).totalUsed
             = LedgerView(q.preCredits, q.user).totalUsed + 2

-----------------------------------------------------------------------------
(* Contracts of getUserCredits, useCredits and addCredits, called one after *)
(* the other                                                                *)

\* the other users' records are as they were when the request arrived
OthersUntouched(q) ==
    \A v \in (DOMAIN q.preCredits \cup DOMAIN q.postCredits) \ {q.user} :
        /\ v \in DOMAIN q.preCredits /\ v \in DOMAIN q.postCredits
        /\ q.postCredits[v] = q.preCredits[v]

\* C12: useCredits on a record whose balance is below the amount returns false
\* and leaves credits.json as it was: balance, totalPurchased, totalUsed and
\* updatedAt of every user
C12_DebitRefused ==
    \A q \in Requests :
        (/\ q.kind = "debit" /\ ~InFlight(q)
         /\ HasRecord(q.preCredits, q.user)
         /\ q.preCredits[q.user].balance < q.amount)
        => /\ q.resp.ok = FALSE
           /\ q.postCredits = q.preCredits

\* C12 witness: a debit of 3 refused on balance 2, at a later time than the record's
C12_Witness ==
    \E q \in Requests :
        /\ q.kind = "debit" /\ ~InFlight(q) /\ q.amount = 3 /\ q.resp.ok = FALSE
        /\ HasRecord(q.preCredits, q.user)
        /\ q.preCredits[q.user].balance = 2
        /\ q.preCredits[q.user].updatedAt < now

\* C13: useCredits on a record whose balance is at least the amount returns true,
\* takes exactly the amount off the balance, adds exactly the amount to totalUsed
\* and leaves totalPurchased (and the other users) alone
C13_DebitApplied ==
    \A q \in Requests :
        (/\ q.kind = "debit" /\ ~InFlight(q)
         /\ HasRecord(q.preCredits, q.user)
         /\ q.preCredits[q.user].balance >= q.amount)
        => /\ q.resp.ok = TRUE
           /\ q.postCredits[q.user].balance = q.preCredits[q.user].balance - q.amount
           /\ q.postCredits[q.user].totalUsed = q.preCredits[q.user].totalUsed + q.amount
           /\ q.postCredits[q.user].totalPurchased = q.preCredits[q.user].totalPurchased
           /\ OthersUntouched(q)

\* C13 witness: a second debit, 2 taken from balance 3
C13_Witness ==
    \E q \in Requests :
        /\ q.kind = "debit" /\ ~InFlight(q) /\ q.amount = 2 /\ q.resp.ok
        /\ HasRecord(q.preCredits, q.user)
        /\ q.preCredits[q.user].balance = 3 /\ q.preCredits[q.user].totalUsed = 2
        /\ q.postCredits[q.user].balance = 1 /\ q.postCredits[q.user].totalUsed = 4

\* C14: addCredits with an amount of 0 or more returns the record, with exactly
\* the amount added to the balance and to totalPurchased the user's record had
\* (an unknown user's count from 0) and totalUsed as it was
C14_CreditApplied ==
    \A q \in Requests :
        (q.kind = "credit" /\ ~InFlight(q))
        => LET before == RecordOf(q.preCredits, q.user)
               after == RecordOf(q.postCredits, q.user)
           IN  /\ q.resp.status = 200
               /\ HasRecord(q.postCredits, q.user)
               /\ q.resp.record = q.postCredits[q.user]
               /\ after.balance = before.balance + q.amount
               /\ after.totalPurchased = before.totalPurchased + q.amount
               /\ after.totalUsed = before.totalUsed
               /\ OthersUntouched(q)

\* C14 witness: 10 credited to a user who had used 2 of the starter 5
C14_Witness ==
    \E q \in Requests :
        /\ q.kind = "credit" /\ ~InFlight(q) /\ q.amount = 10
        /\ HasRecord(q.preCredits, q.user)
        /\ q.preCredits[q.user].totalUsed = 2
        /\ q.postCredits[q.user].balance = 13
        /\ q.postCredits[q.user].totalPurchased = 10
        /\ q.postCredits[q.user].totalUsed = 2

\* C15: getUserCredits returns a stored record as it is and changes nothing; for
\* an unknown user it stores and returns a record with balance 5, totalPurchased 0
\* and totalUsed 0, the other users' records as they were
C15_GetCreatesOrReturns ==
    \A q \in Requests :
        (q.kind = "get" /\ ~InFlight(q))
        => IF HasRecord(q.preCredits, q.user)
           THEN /\ q.resp.record = q.preCredits[q.user]
                /\ q.postCredits = q.preCredits
           ELSE /\ HasRecord(q.postCredits, q.user)
                /\ q.resp.record = q.postCredits[q.user]
                /\ q.resp.record.balance = 5
                /\ q.resp.record.totalPurchased = 0
                /\ q.resp.record.totalUsed = 0
                /\ OthersUntouched(q)

\* C15 witness: the get that created a record and, at a later time, a second get
\* of the same user that returned the same record
C15_Witness ==
    \E q1 \in Requests, q2 \in Requests :
        /\ q1.kind = "get" /\ q2.kind = "get" /\ ~InFlight(q1) /\ ~InFlight(q2)
        /\ q1.user = q2.user
        /\ ~HasRecord(q1.preCredits, q1.user)
        /\ HasRecord(q2.preCredits, q2.user)
        /\ q2.resp.record = q1.resp.record
        /\ q2.resp.record.updatedAt < now

-----------------------------------------------------------------------------
(* Reconciliation of sessions that cannot be reconciled *)

\* C16: a verify or webhook call for a paid session that has no payment record,
\* or whose metadata has no userId or no non-zero credits, leaves credits.json as
\* it was (no record created, none changed), and verify answers it with a client
\* error (a webhook delivery has only its acknowledgement to answer with)
C16_UnknownPaymentRejected ==
    \A q \in Requests :
        (/\ IsReconcile(q) /\ ~InFlight(q)
         /\ q.session \in 1..Len(sessions)
         /\ sessions[q.session].paid
         /\ q.resp.status # 500
         /\ \/ FindPayment(q.prePayments, q.session) = 0
            \/ sessions[q.session].userId = ""
            \/ sessions[q.session].credits = 0)
        => /\ q.kind = "verify" => q.resp.status \in 400..499
           /\ q.postCredits = q.preCredits

-----------------------------------------------------------------------------
(* Requests the schemas reject *)

\* C17: an image request whose body its schema rejects is answered 400 and has
\* changed nothing: credits.json and payments.json are as they were and no event
\* has been logged
C17_MalformedHasNoEffect ==
    \A q \in Requests :
        (IsImageRequest(q) /\ ~InFlight(q) /\ ~q.valid)
        => /\ q.resp.status = 400
           /\ q.postCredits = q.preCredits
           /\ q.postPayments = q.prePayments
           /\ q.postEvents = q.preEvents

-----------------------------------------------------------------------------
(* Payments and ledger together *)

RECURSIVE CompletedCredits(_, _)
\* the credits of the completed payment records of user u
CompletedCredits(pays, u) ==
    IF pays = <<>> THEN 0
    ELSE (IF Head(pays).userId = u /\ Head(pays).status = "completed"
          THEN Head(pays).credits ELSE 0) + CompletedCredits(Tail(pays), u)

\* C18: whenever no request is in flight, the credits of every completed payment
\* record are in its user's ledger record: totalPurchased is at least the credits
\* of the user's completed records, also after a write of credits.json has failed
C18_CompletedIsCredited ==
    (\A q \in Requests : ~InFlight(q))
        => \A u \in Users :
              CompletedCredits(paymentsFile, u) <= RecordOf(creditsFile, u).totalPurchased

\* C19: a verify call for a session that is not paid is answered with an error,
\* as is one whose processor call fails, and leaves payments.json (the record still
\* pending), credits.json and the event log as they were; a verify or webhook call
\* that then finds the record pending and the session paid completes it and adds
\* its credits to the user's balance and totalPurchased
C19_UnpaidStaysPending ==
    /\ \A q \in Requests :
          (q.kind = "verify" /\ ~InFlight(q) /\ q.session \in 1..Len(sessions))
          => /\ ~sessions[q.session].paid => q.resp.status \in {400, 500}
             /\ q.resp.status \in {400, 500}
                  => /\ q.postPayments = q.prePayments
                     /\ q.postCredits = q.preCredits
                     /\ q.postEvents = q.preEvents
    /\ \A q1 \in Requests, q2 \in Requests :
          (/\ q1.kind = "verify" /\ ~InFlight(q1) /\ q1.resp.status \in {400, 500}
           /\ StatusOf(q1.prePayments, q1.session) = "pending"
           /\ IsReconcile(q2) /\ ~InFlight(q2) /\ q2.session = q1.session
           /\ StatusOf(q2.prePayments, q2.session) = "pending"
           /\ q2.resp.status = 200)
          => LET u == sessions[q2.session].userId
                 c == sessions[q2.session].credits
             IN  /\ StatusOf(q2.postPayments, q2.session) = "completed"
                 /\ RecordOf(q2.postCredits, u).totalPurchased
                      = RecordOf(q2.preCredits, u).totalPurchased + c
                 /\ RecordOf(q2.postCredits, u).balance
                      = RecordOf(q2.preCredits, u).balance + c

\* C19 witness: verify answered 400 before the customer paid, the record pending;
\* verify again after the payment, the record completed and 10 credits added
C19_Witness ==
    \E q1 \in Requests, q2 \in Requests :
        /\ q1.kind = "verify" /\ ~InFlight(q1) /\ q1.resp.status = 400
        /\ StatusOf(q1.postPayments, q1.session) = "pending"
        /\ q2.kind = "verify" /\ ~InFlight(q2) /\ q2.resp.status = 200
        /\ q2.session = q1.session
        /\ StatusOf(q2.postPayments, q2.session) = "completed"
        /\ q2.postCredits[sessions[q2.session].userId].totalPurchased = 10

\* C20: a verify or webhook call that completes a pending payment record logs
\* exactly one event, a credits_purchased event of the record's user carrying the
\* record's credits and the amount paid; a call that finds the record completed,
\* or finds none, logs no event
C20_OnePurchaseEvent ==
    \A q \in Requests :
        (/\ IsReconcile(q) /\ ~InFlight(q)
         /\ q.session \in 1..Len(sessions)
         /\ q.resp.status \notin {400, 500})
        => LET i == FindPayment(q.prePayments, q.session)
               log == Logged(q)
           IN  IF i # 0 /\ q.prePayments[i].status = "pending"
               THEN /\ StatusOf(q.postPayments, q.session) = "completed"
                    /\ Len(log) = 1
                    /\ log[1].type = "credits_purchased"
                    /\ log[1].userId = q.prePayments[i].userId
                    /\ log[1].metadata.credits = q.prePayments[i].credits
                    /\ log[1].metadata.amount = q.prePayments[i].amount
               ELSE log = <<>>

\* C20 witness: a pro payment completed by the webhook, one event with credits 50
\* and amount 2000 in the log, and a verify of the same session that added none
C20_Witness ==
    \E q1 \in Requests, q2 \in Requests :
        /\ q1.kind = "webhook" /\ ~InFlight(q1)
        /\ q2.kind = "verify" /\ ~InFlight(q2) /\ q2.resp.status = 200
        /\ q1.session = q2.session
        /\ StatusOf(q1.prePayments, q1.session) = "pending"
        /\ StatusOf(q2.prePayments, q2.session) = "completed"
        /\ Len(q2.postEvents) = 1
        /\ q2.postEvents[1].type = "credits_purchased"
        /\ q2.postEvents[1].metadata.credits = 50
        /\ q2.postEvents[1].metadata.amount = 2000

-----------------------------------------------------------------------------
(* The usage event recorder called on its own (services/openai.ts, trackEvent) *)

\* the metadata the callers of trackEvent pass with each type of event
TrackMeta(type) ==
    CASE type = "image_generated" -> [NoMeta EXCEPT !.model = "dall-e-2", !.count = 2, !.cost = 2]
      [] type = "image_failed" -> [NoMeta EXCEPT !.model = "dall-e-3"]
      [] type = "credits_purchased" -> [NoMeta EXCEPT !.credits = 10, !.amount = 500]
      [] type = "credits_used" -> [NoMeta EXCEPT !.credits = 2]

EventTypes == {"image_generated", "image_failed", "credits_purchased", "credits_used"}

StartTrack(type, u) ==
    /\ CanAdmit
    /\ UNCHANGED <<creditsFile, paymentsFile, analyticsFile, sessions, uploads, now, run>>
    /\ Admit(CallTrackEvent(Arrive([NewRequest EXCEPT !.kind = "track", !.user = u]),
                            type, u, TrackMeta(type), "track.return"))

\* analytics.json after n calls trackEvent("image_failed", "u2", {model: "dall-e-3"})
\* on day 0, n at most the retention cap: what n applications of TrackEventApply
\* to InitialAnalytics(0) give
Backlog(n) ==
    [present |-> TRUE,
     events |-> [i \in 1..n |-> NewEvent("image_failed", "u2", TrackMeta("image_failed"), 0)],
     daily |-> IF n = 0 THEN EmptyFn
               ELSE 0 :> [EmptyDaily(0) EXCEPT !.imagesFailed = n, !.uniqueUsers = <<"u2">>],
     summary |-> [InitialSummary(0) EXCEPT !.totalImagesFailed = n,
                                           !.uniqueUsers = IF n = 0 THEN 0 ELSE 1]]

MaxTrackCalls == 3
TrackUsers == {"u1"}
BacklogLengths == {RetentionCap - 1, RetentionCap}

\* trackEvent called one call at a time on a log that is about to reach, or has
\* reached, the retention cap
InitAnalytics ==
    /\ creditsFile = EmptyFn
    /\ paymentsFile = <<>>
    /\ \E n \in BacklogLengths : analyticsFile = Backlog(n)
    /\ sessions = <<>>
    /\ uploads = NoUploads
    /\ now = 0
    /\ req = EmptyBag
    /\ admitted = 0
    /\ run = [limit |-> MaxTrackCalls, serial |-> TRUE, keep |-> FALSE]

\* one call of trackEvent from its read of analytics.json to its write, no other
\* call in between
TrackEvent(type, u) ==
    /\ admitted < run.limit
    /\ analyticsFile' =
          TrackEventApply(IF analyticsFile.present THEN analyticsFile ELSE InitialAnalytics(now),
                          type, u, TrackMeta(type), now)
    /\ admitted' = admitted + 1
    /\ UNCHANGED <<creditsFile, paymentsFile, sessions, uploads, now, req, run>>

NextAnalytics == \E type \in EventTypes, u \in TrackUsers : TrackEvent(type, u)

SpecAnalytics == InitAnalytics /\ [][NextAnalytics]_vars


\* trackEvent called by overlapping requests, on no file at first
InitTrack ==
    /\ Files0
    /\ run = [limit |-> MaxTrackCalls, serial |-> FALSE, keep |-> TRUE]

NextTrack ==
    \/ \E type \in EventTypes, u \in TrackUsers : StartTrack(type, u)
    \/ \E q \in Requests : TrackEventRead(q)
    \/ \E q \in Requests : TrackEventInit(q)
    \/ \E q \in Requests : TrackEventWrite(q)

SpecTrack == InitTrack /\ [][NextTrack]_vars

-----------------------------------------------------------------------------
(* The cost of a generation, line 42 of routes/images.ts, on its own *)

\* n: z.number().min(1).max(10)
MaxCount == 10

\* the models of the price table and one that is not in it
QuoteModels == KnownModels \cup {"dall-e-1"}

\* the cost is to be computed for model m and count n
InitPricing ==
    /\ creditsFile = EmptyFn
    /\ paymentsFile = <<>>
    /\ analyticsFile = MissingAnalytics
    /\ sessions = <<>>
    /\ uploads = NoUploads
    /\ now = 0
    /\ admitted = 0
    /\ run = [limit |-> 0, serial |-> TRUE, keep |-> TRUE]
    /\ \E u \in Users, m \in QuoteModels, n \in 1..MaxCount :
          req = One(Arrive([NewRequest EXCEPT !.kind = "quote", !.pc = "quote", !.user = u,
                                              !.model = m, !.n = n]))

\* const cost = (MODEL_CREDIT_COSTS[input.model] || 1) * input.n
Quote(q) ==
    /\ q.pc = "quote"
    /\ UNCHANGED <<creditsFile, paymentsFile, analyticsFile, sessions, uploads, now, admitted, run>>
    /\ Step(q, Respond([q EXCEPT !.cost = CostOf(q.model) * q.n],
                       [NoResponse EXCEPT !.status = 200]))

NextPricing == \E q \in Requests : Quote(q)

SpecPricing == InitPricing /\ [][NextPricing]_vars

-----------------------------------------------------------------------------
(* Generate requests of one user that overlap *)

MaxRaceRequests == 2
RaceCounts == {2}

InitImagesRace ==
    /\ Stores0
    /\ uploads \in {[dir |-> d, files |-> 0] : d \in BOOLEAN}
    /\ run = [limit |-> MaxRaceRequests, serial |-> FALSE, keep |-> TRUE]

NextImagesRace ==
    \/ \E u \in ImageUsers, m \in GenerateModels, n \in RaceCounts : StartGenerate(u, m, n, TRUE)
    \/ \E q \in Requests : GenerateImage(q)
    \/ \E q \in Requests : SaveGenerated(q)
    \/ \E q \in Requests : GetUserCreditsRead(q)
    \/ \E q \in Requests : GetUserCreditsWrite(q)
    \/ \E q \in Requests : UseCreditsRead(q)
    \/ \E q \in Requests : UseCreditsWrite(q)
    \/ \E q \in Requests : TrackEventRead(q)
    \/ \E q \in Requests : TrackEventInit(q)
    \/ \E q \in Requests : TrackEventWrite(q)

SpecImagesRace == InitImagesRace /\ [][NextImagesRace]_vars

-----------------------------------------------------------------------------
(* The ledger over time *)

\* C21: from one stored state of credits.json to the next, no user's totalPurchased
\* and no user's totalUsed is lower than it was
C21_TotalsNeverDecrease ==
    [][\A u \in DOMAIN creditsFile :
          u \in DOMAIN creditsFile' =>
             /\ creditsFile'[u].totalPurchased >= creditsFile[u].totalPurchased
             /\ creditsFile'[u].totalUsed >= creditsFile[u].totalUsed]_vars

-----------------------------------------------------------------------------
(* The event log and its summary *)

\* the sum of value * times over a set of <<value, times>> pairs
RECURSIVE SumOf(_)
SumOf(S) ==
    IF S = {} THEN 0
    ELSE LET x == CHOOSE y \in S : TRUE IN x[1] * x[2] + SumOf(S \ {x})

\* the sum of metadata[field] over the stored events of one type: each value that
\* occurs, times the number of events that carry it
SumMeta(events, type, field) ==
    LET of == {i \in 1..Len(events) : events[i].type = type}
        values == {events[i].metadata[field] : i \in of}
    IN  SumOf({<<v, Cardinality({i \in of : events[i].metadata[field] = v})>> : v \in values})

\* the summary counters computed afresh from a sequence of events, by the rule
\* trackEvent applies to each event as it arrives
Recomputed(events) ==
    LET revenue == SumMeta(events, "credits_purchased", "amount")
        all == Cardinality(AllUsers(events))
    IN  [totalImagesGenerated |-> CountType(events, "image_generated"),
         totalImagesFailed |-> CountType(events, "image_failed"),
         totalCreditsPurchased |-> SumMeta(events, "credits_purchased", "credits"),
         totalCreditsUsed |-> SumMeta(events, "credits_used", "credits"),
         totalRevenue |-> revenue,
         uniqueUsers |-> all,
         conversionRate |->
             IF all > 0 THEN Ratio(Cardinality(PurchasingUsers(events)) * 100, all)
             ELSE <<0, 1>>,
         topModels |-> TopModels(events)]

\* C22: the summary stored in analytics.json equals the summary recomputed from the
\* stored events, counter by counter: images generated and failed, credits
\* purchased and used, revenue, distinct users, conversion rate and top models
C22_SummaryIsAView ==
    analyticsFile.present =>
        LET again == Recomputed(analyticsFile.events)
        IN  \A f \in DOMAIN again : analyticsFile.summary[f] = again[f]

\* C23: the stored events never number more than the retention cap, and a call of
\* trackEvent leaves the most recent min(total, cap) events in the order they were
\* appended, the new event last: only the oldest are evicted
C23_RetainsMostRecent ==
    [][analyticsFile' # analyticsFile =>
          \E type \in EventTypes, u \in TrackUsers :
              LET all == Append(analyticsFile.events, NewEvent(type, u, TrackMeta(type), now))
                  kept == IF Len(all) < RetentionCap THEN Len(all) ELSE RetentionCap
              IN  /\ Len(analyticsFile'.events) <= RetentionCap
                  /\ analyticsFile'.events = SubSeq(all, Len(all) - kept + 1, Len(all))]_vars

\* C23 witness: a full log that ends with a new event and holds one image_failed
\* event less than were counted: the oldest was evicted
C23_Witness ==
    /\ Len(analyticsFile.events) = RetentionCap
    /\ analyticsFile.events[1].userId = "u2"
    /\ analyticsFile.events[RetentionCap].userId = "u1"
    /\ analyticsFile.summary.totalImagesFailed = RetentionCap
    /\ CountType(analyticsFile.events, "image_failed") = RetentionCap - 1

\* C24: once every call of trackEvent has returned, each call's event is in the
\* stored log: it holds as many events as calls were made
C24_NoEventLost ==
    (admitted > 0 /\ \A q \in Requests : ~InFlight(q)) =>
        Len(analyticsFile.events) = admitted

-----------------------------------------------------------------------------
(* Records are kept *)

\* C25: from one stored state to the next, every user with a record in credits.json
\* still has one, and every payment of payments.json is still there
C25_RecordsNeverDeleted ==
    [][/\ \A u \in DOMAIN creditsFile : u \in DOMAIN creditsFile'
       /\ \A i \in 1..Len(paymentsFile) :
             FindPayment(paymentsFile', paymentsFile[i].stripeSessionId) # 0]_vars

-----------------------------------------------------------------------------
(* Pricing *)

\* C26: the cost computed for model m and count n is 1 * n for dall-e-2 and
\* gpt-image-1-mini, 2 * n for dall-e-3, 3 * n for gpt-image-1 and 1 * n for a model
\* that is not in the table; for n from 1 to 10 it lies between 1 and 30; computing
\* it changes nothing that is stored
C26_CostIsTablePriceTimesCount ==
    \A q \in Requests :
        (q.kind = "quote" /\ ~InFlight(q)) =>
            /\ q.cost = q.n * (CASE q.model \in {"dall-e-2", "gpt-image-1-mini"} -> 1
                                 [] q.model = "dall-e-3" -> 2
                                 [] q.model = "gpt-image-1" -> 3
                                 [] OTHER -> 1)
            /\ q.n \in 1..10 => q.cost \in 1..30
            /\ q.postCredits = q.preCredits
            /\ q.postPayments = q.prePayments
            /\ q.postEvents = q.preEvents

\* C26 witness: ten images of gpt-image-1 cost 30
C26_Witness ==
    \E q \in Requests :
        /\ q.kind = "quote" /\ ~InFlight(q)
        /\ q.model = "gpt-image-1" /\ q.n = 10 /\ q.cost = 30

-----------------------------------------------------------------------------
(* Paid generations *)

\* C27: an image request answered 200 with creditsUsed = c > 0 made one call of
\* useCredits, and that call returned true
C27_SuccessWasPaid ==
    \A q \in Requests :
        (IsImageRequest(q) /\ ~InFlight(q) /\ q.resp.status = 200 /\ q.resp.creditsUsed > 0)
            => q.debits = <<TRUE>>

-----------------------------------------------------------------------------
(* One user's operations and another user's record *)

\* the request that takes the step: one copy of it leaves the bag as it was
Acting(q) == q \notin DOMAIN req' \/ req'[q] < req[q]

\* C28: a step that creates, changes or removes the record of user u in
\* credits.json is a step of a ledger call made for u
C28_OnlyOwnRecordChanges ==
    [][\A u \in Users :
          RecordOf(creditsFile', u) # RecordOf(creditsFile, u) =>
              \E q \in Requests : Acting(q) /\ q.callUser = u]_vars

-----------------------------------------------------------------------------
(* Images charged and images delivered *)

\* C29: a generate request for count n that is answered 200 returns n images, the
\* n its charge costOf(model) * n was computed from
C29_ImagesMatchCharge ==
    \A q \in Requests :
        (q.kind = "generate" /\ ~InFlight(q) /\ q.resp.status = 200) =>
            /\ q.resp.creditsUsed = CostOf(q.model) * q.n
            /\ q.resp.images = q.n

-----------------------------------------------------------------------------
(* The usage log and the ledger *)

EventsOf(events, u) == SelectSeq(events, LAMBDA e : e.userId = u)

\* C30: while no request is in flight and the log is below the retention cap, for
\* every user the credits of the user's credits_used events add up to the user's
\* totalUsed and those of the credits_purchased events to totalPurchased
C30_LogAgreesWithLedger ==
    (/\ \A q \in Requests : ~InFlight(q)
     /\ Len(analyticsFile.events) < RetentionCap) =>
        \A u \in AllUsers(analyticsFile.events) \cup DOMAIN creditsFile :
            LET mine == EventsOf(analyticsFile.events, u)
            IN  /\ SumMeta(mine, "credits_used", "credits") = RecordOf(creditsFile, u).totalUsed
                /\ SumMeta(mine, "credits_purchased", "credits")
                      = RecordOf(creditsFile, u).totalPurchased

====
